---- MODULE Spec2Model ----
(***************************************************************************)
(* The client-side core of the blockchain dashboard:                       *)
(*   - Dashboard (frontend/pages/index.tsx): the active tab and the two    *)
(*     polled queries ['blockchain'] and ['blockchain-stats'];             *)
(*   - TransactionForm (frontend/components/TransactionForm.tsx): the      *)
(*     draft, the mutation that POSTs /api/transactions, its callbacks;    *)
(*   - BlockExplorer (frontend/components/BlockExplorer.tsx): the search   *)
(*     term, the expanded blocks and the filtered block list.              *)
(* Strings are sequences of one-character strings, so that parseFloat,     *)
(* toLowerCase, toString and includes are computed, not assumed.           *)
(***************************************************************************)
EXTENDS Integers, Sequences, FiniteSets, TLC

VARIABLES
  activeTab,      \* Dashboard: useState('overview')
  formData,       \* TransactionForm: useState({sender, recipient, amount})
  mutation,       \* TransactionForm: the state useMutation exposes
  posts,          \* POST /api/transactions requests awaiting their response
  toasts,         \* the last toast shown (react-hot-toast), or NoToast
  validSubmits,   \* handleSubmit calls that passed validation
  writes,         \* axios.post('/api/transactions') calls made
  queries,        \* query key -> the state useQuery exposes
  net,            \* query key -> GET requests awaiting their response
  gateway,        \* the Remote Ledger Gateway: chain and pending transactions
  searchTerm,     \* BlockExplorer: useState('')
  expandedBlocks, \* BlockExplorer: useState(new Set())
  contractCode,   \* SmartContractAnalyzer: useState('')
  analysis,       \* SmartContractAnalyzer: useState(null)
  analyses        \* POST /api/smart-contracts/analyze calls not settled yet

analyzerVars == <<contractCode, analysis, analyses>>

vars == <<activeTab, formData, mutation, posts, toasts, validSubmits, writes,
          queries, net, gateway, searchTerm, expandedBlocks, contractCode,
          analysis, analyses>>

----------------------------------------------------------------------------
(* Bounds of the model. *)

MaxSubmits == 2     \* validated submits in one behaviour
MaxChain == 2       \* blocks the Gateway's chain grows to
MaxSyncSubmits == 1 \* validated submits in one behaviour of SyncSpec
MaxActivityChain == 6 \* blocks of the longest chain the overview is given
MaxAnalyses == 2     \* contract analyses in flight at a time

----------------------------------------------------------------------------
(* Strings. *)

EmptyStr == <<>>

Alice == <<"A", "l", "i", "c", "e">>
Bob == <<"B", "o", "b">>
Charlie == <<"C", "h", "a", "r", "l", "i", "e">>

DigitChars == <<"0", "1", "2", "3", "4", "5", "6", "7", "8", "9">>

DigitVal(c) == (CHOOSE d \in 1..10 : DigitChars[d] = c) - 1

WhiteSpace == {" "}

InfinityStr == <<"I", "n", "f", "i", "n", "i", "t", "y">>

\* s.substring(i - 1, i - 1 + n), clipped to the string.
Sub(s, i, n) ==
  IF i > Len(s) THEN <<>>
  ELSE SubSeq(s, i, IF i + n - 1 > Len(s) THEN Len(s) ELSE i + n - 1)

\* The number of leading characters of s, from position i, that are in set.
RECURSIVE RunLen(_, _, _)
RunLen(s, i, set) ==
  IF i > Len(s) \/ s[i] \notin set THEN 0 ELSE 1 + RunLen(s, i + 1, set)

DigitSet == {DigitChars[d] : d \in 1..10}

\* The value of the n decimal digits of s that start at position i.
RECURSIVE DigitsValue(_, _, _)
DigitsValue(s, i, n) ==
  IF n = 0 THEN 0
  ELSE 10 * DigitsValue(s, i, n - 1) + DigitVal(s[i + n - 1])

\* The number of decimal digits of a natural number, 0 for 0.
RECURSIVE NumDigits(_)
NumDigits(n) == IF n = 0 THEN 0 ELSE 1 + NumDigits(n \div 10)

----------------------------------------------------------------------------
(* parseFloat, as ECMAScript defines it: leading white space is skipped,   *)
(* the longest prefix that is a StrDecimalLiteral is converted, anything   *)
(* after it is ignored, and NaN is returned when there is no such prefix.  *)
(* A number is [kind, neg, mant, exp]: mant * 10^exp, negated when neg;    *)
(* kind is "nan", "inf" or "num".  A decimal whose magnitude is beyond the *)
(* double range converts to Infinity, below it to 0.                       *)

NaN == [kind |-> "nan", neg |-> FALSE, mant |-> 0, exp |-> 0]
Infinity(neg) == [kind |-> "inf", neg |-> neg, mant |-> 0, exp |-> 0]
Num(neg, mant, exp) == [kind |-> "num", neg |-> neg, mant |-> mant, exp |-> exp]

\* 10^308 < Number.MAX_VALUE < 10^309, 10^-324 < Number.MIN_VALUE < 10^-323.
MaxDecimalExponent == 308
MinDecimalExponent == -324

\* mant * 10^exp as a double: out of range above is Infinity, below is 0.
\* (The decade of Number.MAX_VALUE itself is split at 1.8e308.)
ToDouble(neg, mant, exp) ==
  LET order == NumDigits(mant) + exp - 1
      lead == IF NumDigits(mant) >= 2
                THEN mant \div (10 ^ (NumDigits(mant) - 2))
                ELSE mant * 10
  IN  IF mant = 0 THEN Num(neg, 0, 0)
      ELSE IF order > MaxDecimalExponent THEN Infinity(neg)
      ELSE IF order = MaxDecimalExponent /\ lead >= 18 THEN Infinity(neg)
      ELSE IF order < MinDecimalExponent THEN Num(neg, 0, 0)
      ELSE Num(neg, mant, exp)

parseFloat(str) ==
  LET start == 1 + RunLen(str, 1, WhiteSpace)
      signed == start <= Len(str) /\ str[start] \in {"+", "-"}
      neg == signed /\ str[start] = "-"
      p == IF signed THEN start + 1 ELSE start
      nInt == RunLen(str, p, DigitSet)
      hasDot == p + nInt <= Len(str) /\ str[p + nInt] = "."
      nFrac == IF hasDot THEN RunLen(str, p + nInt + 1, DigitSet) ELSE 0
      e == p + nInt + (IF hasDot THEN 1 + nFrac ELSE 0)
      hasE == e <= Len(str) /\ str[e] \in {"e", "E"}
      eSigned == hasE /\ e + 1 <= Len(str) /\ str[e + 1] \in {"+", "-"}
      eNeg == eSigned /\ str[e + 1] = "-"
      ep == IF eSigned THEN e + 2 ELSE e + 1
      nExp == IF hasE THEN RunLen(str, ep, DigitSet) ELSE 0
      expo == IF nExp = 0 THEN 0
              ELSE IF eNeg THEN 0 - DigitsValue(str, ep, nExp)
              ELSE DigitsValue(str, ep, nExp)
      mant == DigitsValue(str, p, nInt) * (10 ^ nFrac)
              + DigitsValue(str, p + nInt + 1, nFrac)
  IN  IF Sub(str, p, Len(InfinityStr)) = InfinityStr THEN Infinity(neg)
      ELSE IF nInt = 0 /\ nFrac = 0 THEN NaN
      ELSE ToDouble(neg, mant, expo - nFrac)

isNaN(x) == x.kind = "nan"

\* x <= 0 on doubles: false for NaN, true for -Infinity, 0 and -0.
LessOrEqualZero(x) ==
  CASE x.kind = "nan" -> FALSE
    [] x.kind = "inf" -> x.neg
    [] OTHER -> x.neg \/ x.mant = 0

Number_isFinite(x) == x.kind = "num"

----------------------------------------------------------------------------
(* The Remote Ledger Gateway (the backend; not part of the client).  It    *)
(* holds the chain and the pending transactions.  A GET is answered from   *)
(* the Gateway's state when the request reaches it; the answer may then    *)
(* travel for any time, or be lost (a transport error).                    *)

Hashes == << <<"a", "b", "c", "1", "2", "3">>,
             <<"d", "e", "f", "4", "5", "6">>,
             <<"0", "0", "f", "9", "A", "b">> >>

HashOf(index) == Hashes[(index % Len(Hashes)) + 1]

Tx(sender, recipient, amount) ==
  [sender |-> sender, recipient |-> recipient, amount |-> amount]

Block(index, hash, transactions) ==
  [index |-> index, hash |-> hash, transactions |-> transactions]

\* The chain of the spec's filter example: block 0 without transactions,
\* block 1 with one transaction Alice -> Bob of 50.
ExampleChain ==
  << Block(0, Hashes[1], <<>>),
     Block(1, Hashes[2], << Tx(Alice, Bob, Num(FALSE, 50, 0)) >>) >>

GenesisGateway == [chain |-> << Block(0, Hashes[1], <<>>) >>, pending |-> <<>>]

\* Mining appends a block holding the pending transactions.
NextIndex(chain) == IF chain = <<>> THEN 0 ELSE chain[Len(chain)].index + 1

Mined(gw) ==
  [chain |-> Append(gw.chain,
                    Block(NextIndex(gw.chain), HashOf(NextIndex(gw.chain)),
                          gw.pending)),
   pending |-> <<>>]

\* Chains a Gateway may hold when the dashboard is opened: the sub-chains of
\* the example chain followed by a block 12 with two transactions.
BlockPool ==
  ExampleChain \o
  << Block(12, Hashes[3], << Tx(Bob, Charlie, Num(FALSE, 30, 0)),
                             Tx(Charlie, Alice, Num(FALSE, 5, -1)) >>) >>

RECURSIVE SubChains(_)
SubChains(chain) ==
  IF chain = <<>> THEN { <<>> }
  ELSE LET rest == SubChains(Tail(chain))
       IN  rest \cup { <<Head(chain)>> \o c : c \in rest }

GatewayChains == SubChains(BlockPool)

\* POST /api/transactions accepted: the transaction becomes pending.
Accepted(gw, body) == [gw EXCEPT !.pending = Append(@, body)]

RECURSIVE CountTransactions(_)
CountTransactions(chain) ==
  IF chain = <<>> THEN 0
  ELSE Len(Head(chain).transactions) + CountTransactions(Tail(chain))

\* GET /api/blockchain and GET /api/blockchain/stats: the response bodies.
Response(key, gw) ==
  IF key = "blockchain"
    THEN [present |-> TRUE, chain |-> gw.chain,
          pending_transactions |-> gw.pending]
    ELSE [present |-> TRUE, total_blocks |-> Len(gw.chain),
          total_transactions |-> CountTransactions(gw.chain),
          pending_transactions |-> Len(gw.pending)]

----------------------------------------------------------------------------
(* The Synchronization Layer: the two useQuery calls of Dashboard, with    *)
(* the query client's defaults.  Per key the client keeps                  *)
(*   data           the last successful response, or undefined             *)
(*   error          whether the last finished fetch failed                 *)
(*   isInvalidated  set by invalidateQueries, cleared by a success         *)
(*   fetchStatus    "fetching" while a request is awaited, else "idle"     *)
(* and net[key] holds the awaited request (cur) and the requests that were *)
(* superseded while travelling (stale), whose results are dropped.         *)

Keys == {"blockchain", "blockchain-stats"}

\* data: undefined, in the shape of the key's responses.
Undefined(key) ==
  IF key = "blockchain"
    THEN [present |-> FALSE, chain |-> <<>>, pending_transactions |-> <<>>]
    ELSE [present |-> FALSE, total_blocks |-> 0, total_transactions |-> 0,
          pending_transactions |-> 0]

NoRequest(key) == Undefined(key)

\* A fetch is started: the request reaches the Gateway, which answers from
\* its state; without data, the error of an earlier fetch is reset.
StartFetch(key, q, gw) ==
  [q EXCEPT !.fetchStatus = "fetching",
            !.error = IF q.data.present THEN @ ELSE FALSE]

\* Mounting Dashboard: both queries have no data and fetch at once.
MountedQuery(key) ==
  [data |-> Undefined(key), error |-> FALSE, isInvalidated |-> FALSE,
   fetchStatus |-> "fetching"]

\* A variant of isLoading that is true during every fetch.
isLoadingWhileFetching(q) == q.fetchStatus = "fetching"

\* isLoading: the first fetch is in flight (no data, no error yet).
isLoading(q) == q.fetchStatus = "fetching" /\ ~q.data.present /\ ~q.error

\* Query.fetch: while a fetch is in flight, a further fetch joins it, unless
\* the caller asks to cancel it (cancelRefetch) and there is data already:
\* then the awaited request is abandoned and a new one is sent.
FetchQuery(key, q, n, gw, cancelRefetch) ==
  IF q.fetchStatus = "fetching" /\ ~(q.data.present /\ cancelRefetch)
    THEN <<q, n>>
    ELSE << StartFetch(key, q, gw),
            [cur |-> Response(key, gw),
             stale |-> IF n.cur.present THEN n.stale \cup {n.cur} ELSE n.stale] >>

\* queryClient.invalidateQueries({queryKey}): marks the query invalidated
\* and refetches it (it is active: Dashboard observes it), cancelling a
\* fetch in flight.
InvalidateQuery(key, q, n, gw) ==
  FetchQuery(key, [q EXCEPT !.isInvalidated = TRUE], n, gw, TRUE)

\* A variant of InvalidatedKeys that leaves the stats query out.
InvalidatedKeysChainOnly == {"blockchain"}

\* The keys onSuccess invalidates.
InvalidatedKeys == {"blockchain", "blockchain-stats"}

----------------------------------------------------------------------------
(* TransactionForm. *)

Tabs == {"overview", "transactions", "blocks", "analytics",
         "smart-contracts", "security"}

EmptyDraft == [sender |-> EmptyStr, recipient |-> EmptyStr, amount |-> EmptyStr]

\* The two quick-action buttons.
AliceToBob == [sender |-> Alice, recipient |-> Bob, amount |-> <<"5", "0">>]
BobToCharlie == [sender |-> Bob, recipient |-> Charlie, amount |-> <<"3", "0">>]

QuickActions == {AliceToBob, BobToCharlie}

\* What the user types into a field.
FieldNames == {"sender", "recipient", "amount"}

TypedNames(name) == IF name = "sender" THEN {EmptyStr, Alice} ELSE {EmptyStr, Bob}

TypedAmounts ==
  { EmptyStr, <<"0">>, <<"-", "5">>, <<"a", "b", "c">>, <<"0", ".", "5">>,
    <<"1", "e", "9", "9", "9">>, InfinityStr, <<"1", "0", "a", "b", "c">> }

TypedValues(name) == IF name = "amount" THEN TypedAmounts ELSE TypedNames(name)

\* A smaller choice of amounts, for the specifications that are not about
\* the validation.
BasicAmounts == { EmptyStr, <<"0", ".", "5">> }

BasicValues(name) == IF name = "amount" THEN BasicAmounts ELSE TypedNames(name)

\* The mutation as useMutation exposes it.
NoResult == [present |-> FALSE, transaction_id |-> 0]
NoError == [present |-> FALSE, message |-> "", hasDetail |-> FALSE, detail |-> ""]

IdleMutation == [status |-> "idle", data |-> NoResult, error |-> NoError]
PendingMutation == [status |-> "pending", data |-> NoResult, error |-> NoError]
SuccessMutation(data) == [status |-> "success", data |-> data, error |-> NoError]
\* A variant of ErrorMutation that resets the mutation instead.
ErrorMutationResets(error) ==
  [status |-> "idle", data |-> NoResult, error |-> NoError]

ErrorMutation(error) == [status |-> "error", data |-> NoResult, error |-> error]

isPending == mutation.status = "pending"
isSuccess == mutation.status = "success"
isError == mutation.status = "error"

\* The errors axios.post rejects with: an HTTP error status whose body has a
\* detail, one whose body has none, and no response at all.
GatewayErrors ==
  { [present |-> TRUE, message |-> "Request failed with status code 400",
     hasDetail |-> TRUE, detail |-> "Insufficient balance"],
    [present |-> TRUE, message |-> "Request failed with status code 500",
     hasDetail |-> FALSE, detail |-> ""],
    [present |-> TRUE, message |-> "Network Error",
     hasDetail |-> FALSE, detail |-> ""] }

NoToast == [kind |-> "none", text |-> ""]
Toast(kind, text) == [kind |-> kind, text |-> text]

GenericFailure == "Failed to create transaction"

\* a || b on strings: the empty string is falsy.
OrElse(a, b) == IF a = "" THEN b ELSE a

\* onError: toast.error(error.response?.data?.detail || 'Failed to ...').
ErrorToastText(error) ==
  OrElse(IF error.hasDetail THEN error.detail ELSE "", GenericFailure)

\* The status panel: Error: {error?.message || 'Failed to ...'}.
ErrorPanelText(error) ==
  OrElse(IF error.present THEN error.message ELSE "", GenericFailure)

\* TransactionForm is rendered by the 'transactions' tab only.
FormMounted == activeTab = "transactions"

\* The inputs and the submit button are disabled while the mutation is
\* pending; the quick-action buttons are not.
\* A variant of SubmitEnabled: the submit button is never disabled.
SubmitAlwaysEnabled == TRUE

InputsEnabled == ~isPending
SubmitEnabled == ~isPending
QuickActionsEnabled == TRUE

\* handleSubmit's two checks.
FieldsFilled(d) ==
  ~(d.sender = EmptyStr \/ d.recipient = EmptyStr \/ d.amount = EmptyStr)

AmountValid(amount) == ~(isNaN(amount) \/ LessOrEqualZero(amount))

PassesValidation(d) == FieldsFilled(d) /\ AmountValid(parseFloat(d.amount))

\* The body handed to mutate.
Body(d) == Tx(d.sender, d.recipient, parseFloat(d.amount))

handleInputChange(name, value) ==
  /\ FormMounted
  /\ InputsEnabled
  /\ formData' = [formData EXCEPT ![name] = value]
  /\ UNCHANGED <<analyzerVars, activeTab, mutation, posts, toasts, validSubmits, writes,
                 queries, net, gateway, searchTerm, expandedBlocks>>

QuickAction(d) ==
  /\ FormMounted
  /\ QuickActionsEnabled
  /\ formData' = d
  /\ UNCHANGED <<analyzerVars, activeTab, mutation, posts, toasts, validSubmits, writes,
                 queries, net, gateway, searchTerm, expandedBlocks>>

\* A variant of mutationRetry: useMutation given retry: 1.
mutationRetryOnce == 1

\* useMutation is given no retry option: a failed mutationFn is not run again.
mutationRetry == 0

\* createTransactionMutation.mutate(body): the mutation becomes pending and
\* mutationFn posts the body.
Mutate(body) ==
  /\ mutation' = PendingMutation
  /\ writes' = writes + 1
  /\ posts' = posts \cup {[id |-> writes + 1, live |-> TRUE, body |-> body,
                           failureCount |-> 0]}

\* A variant of handleSubmit that resets the mutation when it rejects a draft.
handleSubmitResetsOnInvalid ==
  /\ FormMounted
  /\ SubmitEnabled
  /\ IF ~PassesValidation(formData)
       THEN /\ toasts' = Toast("error", "Please fill in all fields")
            /\ mutation' = IdleMutation
            /\ UNCHANGED <<posts, validSubmits, writes>>
       ELSE /\ validSubmits < MaxSubmits
            /\ validSubmits' = validSubmits + 1
            /\ Mutate(Body(formData))
            /\ UNCHANGED toasts
  /\ UNCHANGED <<analyzerVars, activeTab, formData, queries, net, gateway,
                 searchTerm, expandedBlocks>>

handleSubmit ==
  /\ FormMounted
  /\ SubmitEnabled
  /\ IF ~FieldsFilled(formData)
       THEN /\ toasts' = Toast("error", "Please fill in all fields")
            /\ UNCHANGED <<mutation, posts, validSubmits, writes>>
       ELSE IF ~AmountValid(parseFloat(formData.amount))
         THEN /\ toasts' = Toast("error", "Please enter a valid amount")
              /\ UNCHANGED <<mutation, posts, validSubmits, writes>>
         ELSE /\ validSubmits < MaxSubmits
              /\ validSubmits' = validSubmits + 1
              /\ Mutate(Body(formData))
              /\ UNCHANGED toasts
  /\ UNCHANGED <<analyzerVars, activeTab, formData, queries, net, gateway, searchTerm,
                 expandedBlocks>>

\* A variant of onSuccess that leaves the draft in the form.
onSuccessKeepsDraft(p, data) ==
  /\ toasts' = Toast("success", "Transaction created successfully!")
  /\ formData' = formData
  /\ queries' = [k \in Keys |->
                   IF k \in InvalidatedKeys
                     THEN InvalidateQuery(k, queries[k], net[k], gateway')[1]
                     ELSE queries[k]]
  /\ net' = [k \in Keys |->
               IF k \in InvalidatedKeys
                 THEN InvalidateQuery(k, queries[k], net[k], gateway')[2]
                 ELSE net[k]]

\* onSuccess: the draft is cleared and both queries are invalidated.  The
\* callback belongs to the mutation, so it also runs when the form that
\* submitted is no longer mounted; setFormData then has no effect.
onSuccess(p, data) ==
  /\ toasts' = Toast("success", "Transaction created successfully!")
  /\ formData' = IF p.live THEN EmptyDraft ELSE formData
  /\ queries' = [k \in Keys |->
                   IF k \in InvalidatedKeys
                     THEN InvalidateQuery(k, queries[k], net[k], gateway')[1]
                     ELSE queries[k]]
  /\ net' = [k \in Keys |->
               IF k \in InvalidatedKeys
                 THEN InvalidateQuery(k, queries[k], net[k], gateway')[2]
                 ELSE net[k]]

onError(p, error) ==
  /\ toasts' = Toast("error", ErrorToastText(error))
  /\ UNCHANGED <<formData, queries, net>>

\* A variant of WriteSuccess in which the request carries the draft as it is
\* when the Gateway reads it.
WriteSuccessSendsCurrentDraft(p) ==
  /\ p \in posts
  /\ posts' = posts \ {p}
  /\ gateway' = Accepted(gateway, Body(formData))
  /\ LET data == [present |-> TRUE, transaction_id |-> p.id]
     IN  /\ mutation' = IF p.live THEN SuccessMutation(data) ELSE mutation
         /\ onSuccess(p, data)
  /\ UNCHANGED <<analyzerVars, activeTab, validSubmits, writes, searchTerm,
                 expandedBlocks>>

\* The Gateway accepts the transaction of POST p and answers 2xx.
WriteSuccess(p) ==
  /\ p \in posts
  /\ posts' = posts \ {p}
  /\ gateway' = Accepted(gateway, p.body)
  /\ LET data == [present |-> TRUE, transaction_id |-> p.id]
     IN  /\ mutation' = IF p.live THEN SuccessMutation(data) ELSE mutation
         /\ onSuccess(p, data)
  /\ UNCHANGED <<analyzerVars, activeTab, validSubmits, writes, searchTerm, expandedBlocks>>

\* POST p fails: an HTTP error status, or no response.  While the mutation
\* has retries left, mutationFn posts again; otherwise the mutation fails.
WriteError(p, error) ==
  /\ p \in posts
  /\ IF p.failureCount < mutationRetry
       THEN /\ writes < MaxSubmits
            /\ writes' = writes + 1
            /\ posts' = (posts \ {p}) \cup
                          {[p EXCEPT !.id = writes + 1, !.failureCount = @ + 1]}
            /\ UNCHANGED <<mutation, toasts, formData, queries, net>>
       ELSE /\ posts' = posts \ {p}
            /\ mutation' = IF p.live THEN ErrorMutation(error) ELSE mutation
            /\ onError(p, error)
            /\ UNCHANGED writes
  /\ UNCHANGED <<analyzerVars, activeTab, validSubmits, gateway, searchTerm, expandedBlocks>>

----------------------------------------------------------------------------
(* The polling of Dashboard's two queries. *)

\* A variant of Tick whose timer stops once a fetch of the query has failed.
TickStopsAfterError(key) ==
  /\ ~queries[key].error
  /\ queries' = [queries EXCEPT
       ![key] = FetchQuery(key, queries[key], net[key], gateway, FALSE)[1]]
  /\ net' = [net EXCEPT
       ![key] = FetchQuery(key, queries[key], net[key], gateway, FALSE)[2]]
  /\ UNCHANGED <<analyzerVars, activeTab, formData, mutation, posts, toasts, validSubmits,
                 writes, gateway, searchTerm, expandedBlocks>>

\* refetchInterval: 5000.  The timer fetches; a fetch in flight is joined.
Tick(key) ==
  /\ queries' = [queries EXCEPT
       ![key] = FetchQuery(key, queries[key], net[key], gateway, FALSE)[1]]
  /\ net' = [net EXCEPT
       ![key] = FetchQuery(key, queries[key], net[key], gateway, FALSE)[2]]
  /\ UNCHANGED <<analyzerVars, activeTab, formData, mutation, posts, toasts, validSubmits,
                 writes, gateway, searchTerm, expandedBlocks>>

\* A variant of FetchSuccess that merges the response into the cached value:
\* it takes the pending transactions of the response and keeps the rest.
FetchSuccessMerges(key) ==
  /\ net[key].cur.present
  /\ queries' = [queries EXCEPT
       ![key] = [data |-> IF queries[key].data.present
                            THEN [queries[key].data EXCEPT
                                    !.pending_transactions =
                                      net[key].cur.pending_transactions]
                            ELSE net[key].cur,
                 error |-> FALSE,
                 isInvalidated |-> FALSE, fetchStatus |-> "idle"]]
  /\ net' = [net EXCEPT ![key].cur = NoRequest(key)]
  /\ UNCHANGED <<analyzerVars, activeTab, formData, mutation, posts, toasts, validSubmits,
                 writes, gateway, searchTerm, expandedBlocks>>

\* A variant of FetchSuccess in which the explorer starts anew on a snapshot.
FetchSuccessResetsExplorer(key) ==
  /\ net[key].cur.present
  /\ queries' = [queries EXCEPT
       ![key] = [data |-> net[key].cur, error |-> FALSE,
                 isInvalidated |-> FALSE, fetchStatus |-> "idle"]]
  /\ net' = [net EXCEPT ![key].cur = NoRequest(key)]
  /\ expandedBlocks' = {}
  /\ UNCHANGED <<analyzerVars, activeTab, formData, mutation, posts, toasts, validSubmits,
                 writes, gateway, searchTerm>>

\* BlockchainStats shows its placeholders while its loading prop is true.
StatsPlaceholders == isLoading(queries["blockchain-stats"])

\* The awaited response arrives: it replaces the data as a whole.
FetchSuccess(key) ==
  /\ net[key].cur.present
  /\ queries' = [queries EXCEPT
       ![key] = [data |-> net[key].cur, error |-> FALSE,
                 isInvalidated |-> FALSE, fetchStatus |-> "idle"]]
  /\ net' = [net EXCEPT ![key].cur = NoRequest(key)]
  /\ UNCHANGED <<analyzerVars, activeTab, formData, mutation, posts, toasts, validSubmits,
                 writes, gateway, searchTerm, expandedBlocks>>

\* A variant of FetchError in which the queries share one error flag.
FetchErrorSharedFlag(key) ==
  /\ net[key].cur.present
  /\ queries' = [k \in Keys |->
                   IF k = key
                     THEN [queries[k] EXCEPT !.error = TRUE, !.fetchStatus = "idle"]
                     ELSE [queries[k] EXCEPT !.error = TRUE]]
  /\ net' = [net EXCEPT ![key].cur = NoRequest(key)]
  /\ UNCHANGED <<analyzerVars, activeTab, formData, mutation, posts, toasts, validSubmits,
                 writes, gateway, searchTerm, expandedBlocks>>

\* A variant of FetchError that drops the data of the failed query.
FetchErrorDropsData(key) ==
  /\ net[key].cur.present
  /\ queries' = [queries EXCEPT
       ![key] = [@ EXCEPT !.data = Undefined(key), !.error = TRUE,
                          !.fetchStatus = "idle"]]
  /\ net' = [net EXCEPT ![key].cur = NoRequest(key)]
  /\ UNCHANGED <<analyzerVars, activeTab, formData, mutation, posts, toasts, validSubmits,
                 writes, gateway, searchTerm, expandedBlocks>>

\* The awaited request fails (after the client's retries): the data stays.
FetchError(key) ==
  /\ net[key].cur.present
  /\ queries' = [queries EXCEPT
       ![key] = [@ EXCEPT !.error = TRUE, !.fetchStatus = "idle"]]
  /\ net' = [net EXCEPT ![key].cur = NoRequest(key)]
  /\ UNCHANGED <<analyzerVars, activeTab, formData, mutation, posts, toasts, validSubmits,
                 writes, gateway, searchTerm, expandedBlocks>>

\* A variant of StaleArrives that writes the late response into the cache.
StaleArrivesApplied(key, r) ==
  /\ r \in net[key].stale
  /\ net' = [net EXCEPT ![key].stale = @ \ {r}]
  /\ queries' = [queries EXCEPT ![key].data = r]
  /\ UNCHANGED <<analyzerVars, activeTab, formData, mutation, posts, toasts, validSubmits,
                 writes, gateway, searchTerm, expandedBlocks>>

\* A superseded request ends, with a response or an error: it is dropped.
StaleArrives(key, r) ==
  /\ r \in net[key].stale
  /\ net' = [net EXCEPT ![key].stale = @ \ {r}]
  /\ UNCHANGED <<analyzerVars, activeTab, formData, mutation, posts, toasts, validSubmits,
                 writes, queries, gateway, searchTerm, expandedBlocks>>

\* The Gateway mines a block.
Mine ==
  /\ Len(gateway.chain) < MaxChain
  /\ gateway' = Mined(gateway)
  /\ UNCHANGED <<analyzerVars, activeTab, formData, mutation, posts, toasts, validSubmits,
                 writes, queries, net, searchTerm, expandedBlocks>>

----------------------------------------------------------------------------
(* BlockExplorer. *)

UpperChars == <<"A", "B", "C", "D", "E", "F", "G", "H", "I", "J", "K", "L", "M",
                "N", "O", "P", "Q", "R", "S", "T", "U", "V", "W", "X", "Y", "Z">>
LowerChars == <<"a", "b", "c", "d", "e", "f", "g", "h", "i", "j", "k", "l", "m",
                "n", "o", "p", "q", "r", "s", "t", "u", "v", "w", "x", "y", "z">>

LowerChar(c) ==
  IF \E i \in 1..Len(UpperChars) : UpperChars[i] = c
    THEN LowerChars[CHOOSE i \in 1..Len(UpperChars) : UpperChars[i] = c]
    ELSE c

\* String.prototype.toLowerCase.
toLowerCase(s) == [i \in 1..Len(s) |-> LowerChar(s[i])]

\* Number.prototype.toString of a non-negative integer: its decimal digits.
RECURSIVE toString(_)
toString(n) ==
  IF n < 10 THEN <<DigitChars[n + 1]>>
  ELSE Append(toString(n \div 10), DigitChars[(n % 10) + 1])

\* String.prototype.includes: t occurs in s at some position.
includes(s, t) ==
  \E i \in 1..(Len(s) - Len(t) + 1) : SubSeq(s, i, i + Len(t) - 1) = t

\* array.some over the transactions of a block.
SomeTransaction(transactions, searchLower) ==
  \E j \in 1..Len(transactions) :
    \/ includes(toLowerCase(transactions[j].sender), searchLower)
    \/ includes(toLowerCase(transactions[j].recipient), searchLower)

\* A variant of BlockMatches that compares whole fields with the term.
BlockMatchesWholeField(block, term) ==
  IF term = EmptyStr THEN TRUE
  ELSE LET searchLower == toLowerCase(term)
       IN  \/ toString(block.index) = searchLower
           \/ toLowerCase(block.hash) = searchLower
           \/ \E j \in 1..Len(block.transactions) :
                \/ toLowerCase(block.transactions[j].sender) = searchLower
                \/ toLowerCase(block.transactions[j].recipient) = searchLower

\* A variant of BlockMatches that does not lower-case the search term.
BlockMatchesTermAsTyped(block, term) ==
  IF term = EmptyStr THEN TRUE
  ELSE \/ includes(toString(block.index), term)
       \/ includes(toLowerCase(block.hash), term)
       \/ SomeTransaction(block.transactions, term)

\* A variant of BlockMatches whose early return for the empty term is false.
BlockMatchesEmptyRejects(block, term) ==
  IF term = EmptyStr THEN FALSE
  ELSE LET searchLower == toLowerCase(term)
       IN  \/ includes(toString(block.index), searchLower)
           \/ includes(toLowerCase(block.hash), searchLower)
           \/ SomeTransaction(block.transactions, searchLower)

\* The callback of blockchain.chain.filter.
BlockMatches(block, term) ==
  IF term = EmptyStr THEN TRUE
  ELSE LET searchLower == toLowerCase(term)
       IN  \/ includes(toString(block.index), searchLower)
           \/ includes(toLowerCase(block.hash), searchLower)
           \/ SomeTransaction(block.transactions, searchLower)

\* A variant of Filter that returns the blocks that pass in reverse order.
RECURSIVE FilterReversed(_, _)
FilterReversed(chain, term) ==
  IF chain = <<>> THEN <<>>
  ELSE IF BlockMatches(Head(chain), term)
    THEN FilterReversed(Tail(chain), term) \o <<Head(chain)>>
    ELSE FilterReversed(Tail(chain), term)

\* Array.prototype.filter: the elements that pass, in their order.
RECURSIVE Filter(_, _)
Filter(chain, term) ==
  IF chain = <<>> THEN <<>>
  ELSE IF BlockMatches(Head(chain), term)
    THEN <<Head(chain)>> \o Filter(Tail(chain), term)
    ELSE Filter(Tail(chain), term)

\* A variant of FilteredBlocksOf that lists a placeholder block when the
\* filter returns nothing.
FilteredBlocksOfPlaceholder(blockchain, term) ==
  IF blockchain.present /\ Filter(blockchain.chain, term) # <<>>
    THEN Filter(blockchain.chain, term)
    ELSE << Block(0, Hashes[1], <<>>) >>

\* blockchain?.chain?.filter(...) || []
FilteredBlocksOf(blockchain, term) ==
  IF blockchain.present THEN Filter(blockchain.chain, term) ELSE <<>>

\* The BlockExplorer's prop and its filtered list in the current state.
blockchainData == queries["blockchain"].data
filteredBlocks == FilteredBlocksOf(blockchainData, searchTerm)

ExplorerMounted == activeTab = "blocks"

\* What the user types into the search bar.
SearchTerms ==
  { EmptyStr, <<"a", "l", "i", "c", "e">>, <<"a", "b", "c">>, <<"9">>,
    <<"1">>, <<"B", "O", "B">>, <<"F">>, <<" ">> }

\* A variant of setSearchTerm that collapses the blocks on a new search.
setSearchTermCollapses(value) ==
  /\ ExplorerMounted
  /\ searchTerm' = value
  /\ expandedBlocks' = {}
  /\ UNCHANGED <<analyzerVars, activeTab, formData, mutation, posts, toasts,
                 validSubmits, writes, queries, net, gateway>>

setSearchTerm(value) ==
  /\ ExplorerMounted
  /\ searchTerm' = value
  /\ UNCHANGED <<analyzerVars, activeTab, formData, mutation, posts, toasts, validSubmits,
                 writes, queries, net, gateway, expandedBlocks>>

\* A variant of newExpanded that never deletes an index.
newExpandedAddsOnly(closure, blockIndex) == closure \cup {blockIndex}

\* The set toggleBlockExpansion hands to setExpandedBlocks: a copy of the
\* expandedBlocks of the render the handler belongs to, with blockIndex
\* deleted when it has it and added otherwise.
newExpanded(closure, blockIndex) ==
  IF blockIndex \in closure
    THEN closure \ {blockIndex}
    ELSE closure \cup {blockIndex}

\* The state after the header clicks handled on one render: each handler
\* reads the expandedBlocks of that render and replaces the state, so the
\* set of the last call is the one that stays.
ClicksOnOneRender(closure, clicks) ==
  IF clicks = <<>> THEN closure
  ELSE newExpanded(closure, clicks[Len(clicks)])

\* The indices of the blocks the explorer lists.
ListedIndices == {filteredBlocks[i].index : i \in 1..Len(filteredBlocks)}

\* A click on the header of a listed block.
toggleBlockExpansion(blockIndex) ==
  /\ ExplorerMounted
  /\ blockIndex \in ListedIndices
  /\ expandedBlocks' = ClicksOnOneRender(expandedBlocks, <<blockIndex>>)
  /\ UNCHANGED <<analyzerVars, activeTab, formData, mutation, posts, toasts, validSubmits,
                 writes, queries, net, gateway, searchTerm>>

\* Two clicks on headers of listed blocks that are handled before the view
\* renders again (dispatched in one task).
toggleBlocksOnOneRender(first, second) ==
  /\ ExplorerMounted
  /\ first \in ListedIndices
  /\ second \in ListedIndices
  /\ expandedBlocks' = ClicksOnOneRender(expandedBlocks, <<first, second>>)
  /\ UNCHANGED <<analyzerVars, activeTab, formData, mutation, posts, toasts, validSubmits,
                 writes, queries, net, gateway, searchTerm>>

----------------------------------------------------------------------------
(* Dashboard: the Recent Activity list of the overview,                    *)
(*   blockchainData?.chain?.slice(-5).reverse().map(...)                   *)
(* Arrays are objects: slice writes a new array, reverse reverses the      *)
(* array it is called on in place.  The arrays of one evaluation are kept  *)
(* in a small heap: "chain" is the array of the cached snapshot and "copy" *)
(* the array slice allocates.                                              *)

Min(a, b) == IF a < b THEN a ELSE b
Max(a, b) == IF a > b THEN a ELSE b

\* A relative index of slice: negative counts from the end, clipped.
RelativeIndex(i, len) == IF i < 0 THEN Max(len + i, 0) ELSE Min(i, len)

\* Array.prototype.slice(start, end): the elements from start up to end.
slice(array, start, end) ==
  SubSeq(array, RelativeIndex(start, Len(array)) + 1,
                RelativeIndex(end, Len(array)))

\* The order Array.prototype.reverse leaves the array in.
reverse(array) == [i \in 1..Len(array) |-> array[Len(array) - i + 1]]

Heap(chain) == [chain |-> chain, copy |-> <<>>]

\* A variant of RecentActivityHeap that reverses the chain itself and takes
\* its first five blocks: chain.reverse().slice(0, 5).
RecentActivityHeapInPlace(chain) ==
  LET reversed == [Heap(chain) EXCEPT !.chain = reverse(@)]
  IN  [reversed EXCEPT !.copy = slice(reversed.chain, 0, 5)]

\* chain.slice(-5).reverse(): the heap after the evaluation; the list that
\* is mapped to rows is the array "copy".
RecentActivityHeap(chain) ==
  LET sliced == [Heap(chain) EXCEPT !.copy = slice(chain, -5, Len(chain))]
  IN  [sliced EXCEPT !.copy = reverse(@)]

\* A variant of RecentActivity that lists the first five blocks.
RecentActivityFirstFive(blockchain) ==
  IF blockchain.present THEN reverse(slice(blockchain.chain, 0, 5)) ELSE <<>>

\* The blocks the Recent Activity list shows; nothing without a snapshot.
RecentActivity(blockchain) ==
  IF blockchain.present THEN RecentActivityHeap(blockchain.chain).copy ELSE <<>>

\* A render of the active tab's content over the cached snapshot: the
\* overview evaluates the Recent Activity list, the block explorer the
\* filter and the summary, which only read.  The cached chain afterwards
\* is the array "chain" of the heap.
renderTabContent ==
  /\ blockchainData.present
  /\ queries' = [queries EXCEPT
       !["blockchain"].data.chain =
          IF activeTab = "overview" THEN RecentActivityHeap(@).chain ELSE @]
  /\ UNCHANGED <<analyzerVars, activeTab, formData, mutation, posts, toasts, validSubmits,
                 writes, net, gateway, searchTerm, expandedBlocks>>

----------------------------------------------------------------------------
(* SmartContractAnalyzer. *)

AnalyzerMounted == activeTab = "smart-contracts"

\* What the text area can hold: nothing, white space only, a contract.
sampleContract == <<"c", "o", "n", "t", "r", "a", "c", "t">>

ContractCodes == {EmptyStr, <<" ", " ">>, sampleContract, <<" ", "x", " ">>}

\* String.prototype.trim: the string without leading and trailing white space.
RECURSIVE trimEnd(_)
trimEnd(s) ==
  IF s # <<>> /\ s[Len(s)] \in WhiteSpace
    THEN trimEnd(SubSeq(s, 1, Len(s) - 1))
    ELSE s

trim(s) == trimEnd(SubSeq(s, 1 + RunLen(s, 1, WhiteSpace), Len(s)))

\* analysis: null, the body of a response, or the mock of the catch block.
NullAnalysis == [kind |-> "null", security_score |-> 0, detail |-> ""]

MockAnalysis == [kind |-> "mock", security_score |-> 85, detail |-> ""]

\* How a call of fetch can end: it rejects (the Gateway is unreachable), or
\* it resolves with a status and a body that is JSON or is not.
AnalyzeOutcomes ==
  { [reached |-> FALSE, status |-> 0, json |-> FALSE,
     body |-> NullAnalysis],
    [reached |-> TRUE, status |-> 200, json |-> TRUE,
     body |-> [kind |-> "body", security_score |-> 70, detail |-> ""]],
    [reached |-> TRUE, status |-> 500, json |-> TRUE,
     body |-> [kind |-> "body", security_score |-> 0,
               detail |-> "Internal Server Error"]],
    [reached |-> TRUE, status |-> 502, json |-> FALSE,
     body |-> NullAnalysis] }

\* The try block throws when fetch rejects and when response.json() does;
\* fetch does not reject on an error status.
Throws(outcome) == ~outcome.reached \/ ~outcome.json

setContractCode(value) ==
  /\ AnalyzerMounted
  /\ contractCode' = value
  /\ UNCHANGED <<activeTab, formData, mutation, posts, toasts, validSubmits,
                 writes, queries, net, gateway, searchTerm, expandedBlocks,
                 analysis, analyses>>

\* handleAnalyze up to the await: without code it alerts and returns,
\* otherwise it posts the code.
handleAnalyze ==
  /\ AnalyzerMounted
  /\ IF trim(contractCode) = EmptyStr
       THEN UNCHANGED analyses
       ELSE /\ Cardinality(analyses) < MaxAnalyses
            /\ analyses' = analyses \cup
                 {[id |-> CHOOSE i \in 1..MaxAnalyses :
                            \A r \in analyses : r.id # i,
                   live |-> TRUE, contract_code |-> contractCode]}
  /\ UNCHANGED <<activeTab, formData, mutation, posts, toasts, validSubmits,
                 writes, queries, net, gateway, searchTerm, expandedBlocks,
                 contractCode, analysis>>

\* handleAnalyze after the await: the body of the response becomes the
\* analysis, whatever the status; the catch block sets the mock.  A call of
\* an analyzer that is no longer mounted sets nothing.
AnalyzeSettles(r, outcome) ==
  /\ r \in analyses
  /\ analyses' = analyses \ {r}
  /\ analysis' = IF ~r.live THEN analysis
                 ELSE IF Throws(outcome) THEN MockAnalysis
                 ELSE outcome.body
  /\ UNCHANGED <<activeTab, formData, mutation, posts, toasts, validSubmits,
                 writes, queries, net, gateway, searchTerm, expandedBlocks,
                 contractCode>>

----------------------------------------------------------------------------
(* Dashboard: the tabs.  renderTabContent renders one tab's components, so *)
(* leaving a tab unmounts them and their state is gone; entering it mounts *)
(* new ones in their initial state.  A POST in flight outlives its form.   *)

setActiveTab(tab) ==
  /\ tab # activeTab
  /\ activeTab' = tab
  /\ IF activeTab = "transactions"
       THEN /\ formData' = EmptyDraft
            /\ mutation' = IdleMutation
            /\ posts' = {[p EXCEPT !.live = FALSE] : p \in posts}
       ELSE UNCHANGED <<formData, mutation, posts>>
  /\ IF activeTab = "blocks"
       THEN /\ searchTerm' = EmptyStr
            /\ expandedBlocks' = {}
       ELSE UNCHANGED <<searchTerm, expandedBlocks>>
  /\ IF activeTab = "smart-contracts"
       THEN /\ contractCode' = EmptyStr
            /\ analysis' = NullAnalysis
            /\ analyses' = {[r EXCEPT !.live = FALSE] : r \in analyses}
       ELSE UNCHANGED analyzerVars
  /\ UNCHANGED <<toasts, validSubmits, writes, queries, net, gateway>>

----------------------------------------------------------------------------
(* Specifications. *)

InitClient ==
  /\ activeTab = "overview"
  /\ formData = EmptyDraft
  /\ mutation = IdleMutation
  /\ posts = {}
  /\ toasts = NoToast
  /\ validSubmits = 0
  /\ writes = 0
  /\ queries = [k \in Keys |-> MountedQuery(k)]
  /\ searchTerm = EmptyStr
  /\ expandedBlocks = {}
  /\ contractCode = EmptyStr
  /\ analysis = NullAnalysis
  /\ analyses = {}

Init ==
  /\ InitClient
  /\ gateway = GenesisGateway
  /\ net = [k \in Keys |-> [cur |-> Response(k, gateway), stale |-> {}]]

\* The submission workflow: the form, its mutation and the tabs.
Next ==
  \/ \E name \in FieldNames : \E value \in BasicValues(name) :
       handleInputChange(name, value)
  \/ \E d \in QuickActions : QuickAction(d)
  \/ handleSubmit
  \/ \E p \in posts : WriteSuccess(p)
  \/ \E p \in posts : \E error \in GatewayErrors : WriteError(p, error)
  \/ \E tab \in Tabs : setActiveTab(tab)

Spec == Init /\ [][Next]_vars

\* The validation of drafts: every typed amount, in one form instance.
ValidationNext ==
  \/ \E name \in FieldNames : \E value \in TypedValues(name) :
       handleInputChange(name, value)
  \/ \E d \in QuickActions : QuickAction(d)
  \/ handleSubmit
  \/ \E p \in posts : WriteSuccess(p)
  \/ \E p \in posts : \E error \in GatewayErrors : WriteError(p, error)
  \/ setActiveTab("transactions")

ValidationSpec == Init /\ [][ValidationNext]_vars

\* The synchronization layer: the two polled queries, the Gateway, and the
\* submissions that invalidate them.
SyncNext ==
  \/ \E key \in Keys : Tick(key)
  \/ \E key \in Keys : FetchSuccess(key)
  \/ \E key \in Keys : FetchError(key)
  \/ \E key \in Keys : \E r \in net[key].stale : StaleArrives(key, r)
  \/ Mine
  \/ QuickAction(AliceToBob)
  \/ validSubmits < MaxSyncSubmits /\ handleSubmit
  \/ \E p \in posts : WriteSuccess(p)
  \/ \E p \in posts : \E error \in GatewayErrors : WriteError(p, error)
  \/ \E tab \in {"overview", "transactions"} : setActiveTab(tab)

SyncSpec == Init /\ [][SyncNext]_vars

\* The block explorer over the chain query: any initial chain of the
\* Gateway, the polls of ['blockchain'], search, expansion and the tabs.
ExplorerInit ==
  /\ InitClient
  /\ gateway \in {[chain |-> c, pending |-> <<>>] : c \in GatewayChains}
  /\ net = [k \in Keys |-> [cur |-> Response(k, gateway), stale |-> {}]]

ExplorerNext ==
  \/ Tick("blockchain")
  \/ FetchSuccess("blockchain")
  \/ FetchError("blockchain")
  \/ Mine
  \/ \E value \in SearchTerms : setSearchTerm(value)
  \/ \E i \in 1..Len(filteredBlocks) :
       toggleBlockExpansion(filteredBlocks[i].index)
  \/ \E i, j \in ListedIndices : toggleBlocksOnOneRender(i, j)
  \/ \E tab \in Tabs : setActiveTab(tab)

ExplorerSpec == ExplorerInit /\ [][ExplorerNext]_vars

\* The synchronization layer with its timers: the interval of each query
\* keeps firing while Dashboard is mounted.
PollingNext ==
  \/ \E key \in Keys : Tick(key)
  \/ \E key \in Keys : FetchSuccess(key)
  \/ \E key \in Keys : FetchError(key)
  \/ \E key \in Keys : \E r \in net[key].stale : StaleArrives(key, r)
  \/ Mine
  \/ setActiveTab("transactions")
  \/ QuickAction(AliceToBob)
  \/ validSubmits < MaxSyncSubmits /\ handleSubmit
  \/ \E p \in posts : WriteSuccess(p)

PollingSpec ==
  Init /\ [][PollingNext]_vars /\ \A key \in Keys : WF_vars(Tick(key))

\* The dashboard view as a whole: the chain query with its polls, the
\* Gateway, a submission that invalidates the queries, and the explorer's
\* search and expansion, across the tabs.
ViewTabs == {"overview", "transactions", "blocks"}

ViewTerms == {EmptyStr, <<"1">>}

ViewNext ==
  \/ Tick("blockchain")
  \/ FetchSuccess("blockchain")
  \/ FetchError("blockchain")
  \/ \E r \in net["blockchain"].stale : StaleArrives("blockchain", r)
  \/ Mine
  \/ QuickAction(AliceToBob)
  \/ validSubmits < MaxSyncSubmits /\ handleSubmit
  \/ \E p \in posts : WriteSuccess(p)
  \/ \E p \in posts : \E error \in GatewayErrors : WriteError(p, error)
  \/ \E value \in ViewTerms : setSearchTerm(value)
  \/ \E i \in ListedIndices : toggleBlockExpansion(i)
  \/ \E i, j \in ListedIndices : toggleBlocksOnOneRender(i, j)
  \/ \E tab \in ViewTabs : setActiveTab(tab)

ViewSpec == Init /\ [][ViewNext]_vars

\* The overview over chains of any length up to MaxActivityChain.
LongChain(n) ==
  [i \in 1..n |->
     Block(i - 1, HashOf(i - 1),
           IF i = 2 THEN << Tx(Alice, Bob, Num(FALSE, 50, 0)) >> ELSE <<>>)]

ActivityChains == {LongChain(n) : n \in 0..MaxActivityChain}

ActivityInit ==
  /\ InitClient
  /\ gateway \in {[chain |-> c, pending |-> <<>>] : c \in ActivityChains}
  /\ net = [k \in Keys |-> [cur |-> Response(k, gateway), stale |-> {}]]

ActivityNext ==
  \/ Tick("blockchain")
  \/ FetchSuccess("blockchain")
  \/ FetchError("blockchain")
  \/ Mine
  \/ renderTabContent
  \/ \E value \in ViewTerms : setSearchTerm(value)
  \/ \E tab \in ViewTabs : setActiveTab(tab)

ActivitySpec == ActivityInit /\ [][ActivityNext]_vars

\* The contract analyzer and its tab.
AnalyzerNext ==
  \/ \E value \in ContractCodes : setContractCode(value)
  \/ handleAnalyze
  \/ \E r \in analyses : \E outcome \in AnalyzeOutcomes :
       AnalyzeSettles(r, outcome)
  \/ \E tab \in {"overview", "smart-contracts"} : setActiveTab(tab)

AnalyzerSpec == Init /\ [][AnalyzerNext]_vars

----------------------------------------------------------------------------
(* Properties. *)

LivePosts == {p \in posts : p.live}

\* C1: when a poll of a query fails after an earlier poll succeeded, the
\* data exposed afterwards is the data exposed before and the query's error
\* flag is set; and data that is present never becomes undefined, and is
\* replaced only by the response of a successful poll.
C1_FailedPollKeepsSnapshot ==
  [][\A k \in Keys :
       /\ (FetchError(k) /\ queries[k].data.present) =>
            (queries'[k].data = queries[k].data /\ queries'[k].error)
       /\ queries[k].data.present =>
            /\ queries'[k].data.present
            /\ queries'[k].data # queries[k].data => FetchSuccess(k)]_vars

\* A poll failed after a successful one, while the Gateway had moved on.
C1_Witness ==
  \E k \in Keys :
    /\ queries[k].data.present
    /\ queries[k].error
    /\ queries[k].fetchStatus = "idle"
    /\ Response(k, gateway) # queries[k].data

\* C2: a form instance has at most one write in flight, and no step taken
\* while its mutation is pending issues a POST.
C2_OneWriteInFlight ==
  [][/\ Cardinality(LivePosts) <= 1
     /\ isPending => writes' = writes]_vars

\* A write is in flight while the draft would pass validation again.
C2_Witness ==
  /\ isPending
  /\ Cardinality(LivePosts) = 1
  /\ PassesValidation(formData)
  /\ validSubmits < MaxSubmits

\* What C3 asks of a draft: both names non-empty and the amount a finite
\* number greater than zero.
C3_DraftIsValid(d) ==
  /\ d.sender # EmptyStr
  /\ d.recipient # EmptyStr
  /\ d.amount # EmptyStr
  /\ Number_isFinite(parseFloat(d.amount))
  /\ ~LessOrEqualZero(parseFloat(d.amount))

\* C3: a submit issues a POST only for a draft whose sender and recipient
\* are non-empty and whose amount parses as a finite number greater than
\* zero; for every other draft it shows a validation error and posts nothing.
C3_SubmitOnlyValidDrafts ==
  [][handleSubmit =>
       IF C3_DraftIsValid(formData)
         THEN writes' = writes + 1
         ELSE /\ writes' = writes
              /\ posts' = posts
              /\ toasts'.kind = "error"]_vars

\* C4: when the Gateway accepts the write of the mounted form, the mutation
\* is in state success, the draft is empty, and both queries Dashboard polls
\* are invalidated and being refetched; the queries are invalidated also
\* when the form that submitted is gone.
C4_SuccessClearsAndInvalidates ==
  [][\A p \in posts :
       WriteSuccess(p) =>
         /\ \A k \in Keys :
              queries'[k].isInvalidated /\ queries'[k].fetchStatus = "fetching"
         /\ p.live => (mutation'.status = "success" /\ formData' = EmptyDraft)]_vars

\* A submission succeeded over data that had been fetched before.
C4_Witness ==
  /\ isSuccess
  /\ formData = EmptyDraft
  /\ \A k \in Keys : queries[k].isInvalidated /\ queries[k].data.present

\* C5: when the Gateway rejects the write of the mounted form, the draft
\* then holds what was submitted.
C5_DraftPreservedOnFailure ==
  [][\A p \in posts : \A error \in GatewayErrors :
       (WriteError(p, error) /\ p.live /\ mutation'.status = "error") =>
         Body(formData') = p.body]_vars

AllowedStatus == {"idle", "pending", "success", "error"}

\* C6: the mutation's status is one of idle, pending, success, error; in a
\* form instance it becomes pending only by a submit that passes validation,
\* leaves pending only for success (Gateway success) or error (Gateway
\* failure), and changes in no other way.
C6_SubmissionStateMachine ==
  [][/\ mutation.status \in AllowedStatus
     /\ (FormMounted /\ FormMounted' /\ mutation'.status # mutation.status) =>
          \/ /\ mutation.status \in {"idle", "success", "error"}
             /\ mutation'.status = "pending"
             /\ handleSubmit
             /\ PassesValidation(formData)
          \/ /\ mutation.status = "pending"
             /\ mutation'.status = "success"
             /\ \E p \in LivePosts : WriteSuccess(p)
          \/ /\ mutation.status = "pending"
             /\ mutation'.status = "error"
             /\ \E p \in LivePosts : \E error \in GatewayErrors :
                  WriteError(p, error)]_vars

\* A second write of the same behaviour failed: the form was submitted again
\* after an earlier outcome.
C6_Witness == isError /\ writes = 2 /\ posts = {}

\* C7: the writes issued are as many as the submits that passed validation,
\* and a POST is issued only by a submit, one per submit.
C7_OneWritePerValidSubmit ==
  [][/\ writes = validSubmits
     /\ writes' # writes =>
          (handleSubmit /\ writes' = writes + 1 /\ validSubmits' = validSubmits + 1)
     /\ Cardinality(posts') > Cardinality(posts) => handleSubmit]_vars

\* A write failed and nothing is in flight.
C7_Witness == isError /\ writes = 1 /\ validSubmits = 1 /\ posts = {}

\* The failure reason C8 asks for: the Gateway's detail, else the generic text.
C8_Reason(error) ==
  IF error.hasDetail /\ error.detail # "" THEN error.detail ELSE GenericFailure

\* C8: when the write of the mounted form fails, the toast and the status
\* panel both show the Gateway's detail when there is one, and the generic
\* failure message otherwise.
C8_FailureReasonShown ==
  [][\A p \in posts : \A error \in GatewayErrors :
       (WriteError(p, error) /\ p.live /\ mutation'.status = "error") =>
         /\ toasts'.text = C8_Reason(error)
         /\ ErrorPanelText(mutation'.error) = C8_Reason(error)]_vars

\* Two characters that are equal up to the case of a letter.
C9_SameLetter(a, b) ==
  \/ a = b
  \/ \E i \in 1..Len(UpperChars) :
       {a, b} = {UpperChars[i], LowerChars[i]}

\* q occurs in s, case-insensitively.
C9_OccursIn(q, s) ==
  \E off \in 0..(Len(s) - Len(q)) :
    \A j \in 1..Len(q) : C9_SameLetter(q[j], s[off + j])

\* The fields of a block the search looks at.
C9_Fields(block) ==
  {toString(block.index), block.hash}
    \cup {block.transactions[j].sender : j \in 1..Len(block.transactions)}
    \cup {block.transactions[j].recipient : j \in 1..Len(block.transactions)}

\* The positions of the chain whose block has a field in which q occurs.
C9_Positions(chain, q) ==
  {i \in 1..Len(chain) : \E f \in C9_Fields(chain[i]) : C9_OccursIn(q, f)}

\* The blocks at the given positions, in chain order.
C9_Selected(chain, positions) ==
  [k \in 1..Cardinality(positions) |->
     chain[CHOOSE i \in positions :
             Cardinality({j \in positions : j < i}) = k - 1]]

TermAlice == <<"a", "l", "i", "c", "e">>
TermAbc == <<"a", "b", "c">>
TermNine == <<"9">>

\* C9: for a non-empty search term the filtered list holds, in chain order,
\* exactly the blocks in whose index, hash, or a transaction's sender or
\* recipient the term occurs case-insensitively; on the example chain,
\* "alice" gives block 1 only, "abc" block 0 only, "9" no block.
C9_FilterMatches ==
  (blockchainData.present /\ searchTerm # EmptyStr) =>
    /\ filteredBlocks =
         C9_Selected(blockchainData.chain,
                     C9_Positions(blockchainData.chain, searchTerm))
    /\ blockchainData.chain = ExampleChain =>
         /\ searchTerm = TermAlice => filteredBlocks = <<ExampleChain[2]>>
         /\ searchTerm = TermAbc => filteredBlocks = <<ExampleChain[1]>>
         /\ searchTerm = TermNine => filteredBlocks = <<>>

\* The explorer shows the example chain filtered by "alice".
C9_Witness ==
  /\ ExplorerMounted
  /\ blockchainData.present
  /\ blockchainData.chain = ExampleChain
  /\ searchTerm = TermAlice
  /\ Len(filteredBlocks) = 1

\* C10: with an empty search term the filtered list is the chain of the
\* snapshot: the same blocks in the same order.
C10_EmptyTermIsIdentity ==
  (blockchainData.present /\ searchTerm = EmptyStr) =>
    filteredBlocks = blockchainData.chain

\* The explorer shows a chain of three blocks unfiltered.
C10_Witness ==
  /\ ExplorerMounted
  /\ blockchainData.present
  /\ searchTerm = EmptyStr
  /\ Len(blockchainData.chain) = 3
  /\ Len(filteredBlocks) = 3

\* C11: filtering is idempotent: the filter applied, with the same search
\* term, to the filtered list of a chain returns that list again.
C11_FilterIdempotent ==
  blockchainData.present =>
    \A q \in SearchTerms :
      Filter(Filter(blockchainData.chain, q), q) = Filter(blockchainData.chain, q)

\* The explorer lists two blocks of a chain of three under a search term.
C11_Witness ==
  /\ ExplorerMounted
  /\ blockchainData.present
  /\ searchTerm # EmptyStr
  /\ Len(blockchainData.chain) = 3
  /\ Len(filteredBlocks) = 2

\* The symmetric difference of two sets.
C12_SymDiff(S, T) == (S \ T) \cup (T \ S)

\* C12: a toggle of i turns the expansion set S into the symmetric
\* difference of S and {i}, and two toggles that are handled before the view
\* renders again turn it into the symmetric difference of S with both.
C12_ToggleIsSymmetricDifference ==
  ExplorerMounted =>
    \A i, j \in ListedIndices :
      /\ ClicksOnOneRender(expandedBlocks, <<i>>) =
           C12_SymDiff(expandedBlocks, {i})
      /\ ClicksOnOneRender(expandedBlocks, <<i, j>>) =
           C12_SymDiff(C12_SymDiff(expandedBlocks, {i}), {j})

\* C13: a toggle of an index i that is not in the expansion set S adds i,
\* and the toggle of i that follows it gives S again.
C13_ToggleTwiceRestores ==
  [][\A i \in ListedIndices :
       (toggleBlockExpansion(i) /\ i \notin expandedBlocks) =>
         /\ expandedBlocks' = expandedBlocks \cup {i}
         /\ newExpanded(expandedBlocks', i) = expandedBlocks]_vars

\* A block is expanded while another listed block is not.
C13_Witness ==
  /\ ExplorerMounted
  /\ expandedBlocks # {}
  /\ \E i \in ListedIndices : i \notin expandedBlocks

\* C14: no step of the chain query (a poll being issued, its response or
\* its failure arriving, a superseded response arriving, the refetch a
\* successful submission starts) changes the expansion set of the mounted
\* explorer: the blocks expanded before are the blocks expanded after.
C14_SnapshotKeepsExpansion ==
  [][(/\ ExplorerMounted
      /\ \/ Tick("blockchain")
         \/ FetchSuccess("blockchain")
         \/ FetchError("blockchain")
         \/ \E r \in net["blockchain"].stale : StaleArrives("blockchain", r)
         \/ \E p \in posts : WriteSuccess(p))
       => expandedBlocks' = expandedBlocks]_vars

\* The explorer shows, with a block expanded, the snapshot that the refetch
\* after a successful submission brought.
C14_Witness ==
  /\ ExplorerMounted
  /\ expandedBlocks # {}
  /\ writes = 1
  /\ posts = {}
  /\ blockchainData.present
  /\ blockchainData.pending_transactions # <<>>
  /\ ~queries["blockchain"].isInvalidated

\* C15: the expansion set changes only by a toggle: a step that is not a
\* click on a block header (a poll result, a search-term change, a
\* submission, a change of tab) leaves it as it is.
C15_OnlyTogglesChangeExpansion ==
  [][expandedBlocks' # expandedBlocks =>
       \/ \E i \in ListedIndices : toggleBlockExpansion(i)
       \/ \E i, j \in ListedIndices : toggleBlocksOnOneRender(i, j)]_vars

\* C16: for each of the two queries, whenever no fetch of the query is in
\* flight (its last poll has succeeded or failed), a fetch of it is
\* eventually issued.
C16_PollingContinues ==
  \A key \in Keys :
    [](queries[key].fetchStatus = "idle" =>
         <>(queries[key].fetchStatus = "fetching"))

\* The first poll of a query failed: it has no data and is not fetching.
C16_Witness ==
  \E key \in Keys :
    /\ queries[key].fetchStatus = "idle"
    /\ queries[key].error
    /\ ~queries[key].data.present

\* C17: when a submission succeeds, a request of the chain query and one of
\* the stats query are issued at once, without waiting for the timer: the
\* request each query then awaits is one the Gateway answers after the
\* write, and its response is what the query exposes next.
C17_SuccessRefetchesBoth ==
  [][\A p \in posts :
       WriteSuccess(p) =>
         \A k \in Keys :
           /\ queries'[k].fetchStatus = "fetching"
           /\ net'[k].cur = Response(k, gateway')]_vars

\* C18: per query key, the cache takes only the response of the request
\* issued last: issuing a request while another is awaited supersedes the
\* awaited one, the data changes only when the response of the awaited
\* request arrives and then is that response, and a superseded response
\* that arrives changes nothing of the query.
C18_OnlyLatestRequestApplied ==
  [][\A k \in Keys :
       /\ (net'[k].cur.present /\ net[k].cur.present /\ net'[k].cur # net[k].cur) =>
            net[k].cur \in net'[k].stale
       /\ queries'[k].data # queries[k].data =>
            (FetchSuccess(k) /\ queries'[k].data = net[k].cur)
       /\ \A r \in net[k].stale :
            StaleArrives(k, r) => queries'[k] = queries[k]]_vars

\* The response of a later request is exposed and up to date while an
\* earlier request, overtaken by it, has not come back yet.
C18_Witness ==
  \E k \in Keys :
    /\ queries[k].fetchStatus = "idle"
    /\ queries[k].data = Response(k, gateway)
    /\ \E r \in net[k].stale : r # queries[k].data

\* The states the Gateway has been in: a pending transaction was accepted
\* last, and a block that holds transactions was mined from the pending ones.
RECURSIVE C19_PastGateways(_)
C19_PastGateways(gw) ==
  {gw} \cup
    (IF gw.pending # <<>>
       THEN C19_PastGateways([gw EXCEPT !.pending = SubSeq(@, 1, Len(@) - 1)])
       ELSE IF Len(gw.chain) > 1
         THEN C19_PastGateways(
                [chain |-> SubSeq(gw.chain, 1, Len(gw.chain) - 1),
                 pending |-> gw.chain[Len(gw.chain)].transactions])
         ELSE {})

\* C19: the value a consumer reads for a query is undefined or is, as a
\* whole, one response the Gateway has given for that query: no value mixes
\* fields of two responses.
C19_NoTornSnapshot ==
  \A k \in Keys :
    \/ queries[k].data = Undefined(k)
    \/ \E gw \in C19_PastGateways(gateway) : queries[k].data = Response(k, gw)

\* Both queries expose a response, the chain query one of an earlier state
\* of the Gateway, which has accepted a transaction and mined a block since.
C19_Witness ==
  /\ \A k \in Keys : queries[k].data.present
  /\ queries["blockchain"].data # Response("blockchain", gateway)
  /\ queries["blockchain"].data.pending_transactions # <<>>
  /\ Len(gateway.chain) = 2

\* C20: the two polls are independent: while both queries await a
\* response, either response can arrive first, and the arrival of the
\* response or of the failure of one query leaves the other query (its
\* data, its error flag, the request it awaits) as it is.
C20_PollsIndependent ==
  [][/\ (\A k \in Keys : net[k].cur.present) =>
          \A k \in Keys : ENABLED FetchSuccess(k) /\ ENABLED FetchError(k)
     /\ \A k \in Keys :
          (FetchSuccess(k) \/ FetchError(k)) =>
            \A j \in Keys \ {k} :
              /\ queries'[j].data = queries[j].data
              /\ queries'[j].error = queries[j].error
              /\ net'[j] = net[j]]_vars

\* After both queries got data, the stats poll of a later round has come
\* back, with a block the chain query does not show yet, while the chain
\* poll is still awaited.
C20_Witness ==
  /\ \A k \in Keys : queries[k].data.present
  /\ queries["blockchain"].fetchStatus = "fetching"
  /\ queries["blockchain-stats"].fetchStatus = "idle"
  /\ queries["blockchain-stats"].data.total_blocks >
       Len(queries["blockchain"].data.chain)

\* The summary totals of the explorer: chain.length and the reduce over the
\* blocks' transactions.
C21_Summary(chain) ==
  [total_blocks |-> Len(chain), total_transactions |-> CountTransactions(chain)]

\* C21: no consumer changes the cached chain: a render (the Recent Activity
\* list, the filtered list, the summary) leaves the snapshot's blocks and
\* their order as they are, and the cached value changes only when a
\* response of the chain query arrives.
C21_ConsumersDoNotMutate ==
  [][/\ renderTabContent => queries' = queries
     /\ queries'["blockchain"].data # queries["blockchain"].data =>
          FetchSuccess("blockchain")
     /\ blockchainData.present =>
          /\ RecentActivityHeap(blockchainData.chain).chain = blockchainData.chain
          /\ Len(filteredBlocks) <= C21_Summary(blockchainData.chain).total_blocks]_vars

\* The overview shows the recent activity of a chain of more than five
\* blocks.
C21_Witness ==
  /\ activeTab = "overview"
  /\ blockchainData.present
  /\ Len(blockchainData.chain) > 5
  /\ RecentActivity(blockchainData) # blockchainData.chain

\* C22: when the chain of the snapshot is empty, and when no snapshot has
\* been received yet, the filtered block list is empty for every search
\* term, the empty one included.
C22_EmptyChainEmptyList ==
  (~blockchainData.present \/ blockchainData.chain = <<>>) =>
    /\ filteredBlocks = <<>>
    /\ \A q \in SearchTerms : FilteredBlocksOf(blockchainData, q) = <<>>

\* The explorer shows the snapshot of an empty chain under a search term.
C22_Witness ==
  /\ ExplorerMounted
  /\ blockchainData.present
  /\ blockchainData.chain = <<>>
  /\ searchTerm # EmptyStr

\* The network call failed: no response, or a response with an error status.
C23_CallFailed(outcome) == ~outcome.reached \/ outcome.status >= 400

\* C23: whenever the analysis call of the mounted analyzer fails (the
\* Gateway is unreachable, or it answers with an error status), the
\* analysis shown becomes the mock analysis.
C23_FailureShowsMock ==
  [][\A r \in analyses : \A outcome \in AnalyzeOutcomes :
       (AnalyzeSettles(r, outcome) /\ r.live /\ C23_CallFailed(outcome)) =>
         analysis' = MockAnalysis]_vars

\* C24: a submit that fails the validation changes neither the draft nor the
\* submission state (the mutation's status, result and error), and sends
\* nothing; it only shows the validation message.
C24_RejectedSubmitChangesNothing ==
  [][(handleSubmit /\ ~PassesValidation(formData)) =>
       /\ formData' = formData
       /\ mutation' = mutation
       /\ posts' = posts
       /\ writes' = writes
       /\ toasts'.kind = "error"]_vars

\* After a failed write, a submit of a draft with an invalid amount has been
\* rejected: the state is still Failed and the draft is still there.
C24_Witness ==
  /\ isError
  /\ toasts = Toast("error", "Please enter a valid amount")
  /\ formData.amount # EmptyStr
  /\ formData.sender # EmptyStr

\* An edit of the draft: typing into a field or a quick action.
C25_DraftEdit ==
  \/ \E name \in FieldNames : \E value \in TypedValues(name) :
       handleInputChange(name, value)
  \/ \E d \in QuickActions : QuickAction(d)

\* C25: the draft is empty from the moment the state is Succeeded and, while
\* it is, changes only by an edit; a submit of that draft fails the
\* validation and issues no write, so repeating submit after a success
\* does not send the transaction again.
C25_NoResendAfterSuccess ==
  [][/\ \A p \in posts : (WriteSuccess(p) /\ p.live) => formData' = EmptyDraft
     /\ (isSuccess /\ isSuccess' /\ formData' # formData) => C25_DraftEdit
     /\ (isSuccess /\ formData = EmptyDraft /\ handleSubmit) =>
          /\ writes' = writes
          /\ posts' = posts
          /\ isSuccess'
          /\ toasts' = Toast("error", "Please fill in all fields")]_vars

\* Submit was repeated after a success and rejected: one write was issued.
C25_Witness ==
  /\ isSuccess
  /\ formData = EmptyDraft
  /\ toasts = Toast("error", "Please fill in all fields")
  /\ writes = 1
  /\ validSubmits = 1

\* C26: the body of a write is the draft at the moment of the submit
\* (sender and recipient as entered, the amount parsed); the body of a
\* request in flight does not change, whatever happens to the draft, and it
\* is the transaction the Gateway accepts.
C26_BodyIsDraftAtSubmit ==
  [][/\ (handleSubmit /\ PassesValidation(formData)) =>
          \E p \in posts' \ posts :
            /\ posts' = posts \cup {p}
            /\ p.body.sender = formData.sender
            /\ p.body.recipient = formData.recipient
            /\ p.body.amount = parseFloat(formData.amount)
     /\ \A p \in posts : \A q \in posts' : q.id = p.id => q.body = p.body
     /\ \A p \in posts :
          WriteSuccess(p) => gateway'.pending = Append(gateway.pending, p.body)]_vars

\* The request for Alice -> Bob (50) is in flight while the draft has been
\* changed to Bob -> Charlie (30) by a quick action.
C26_Witness ==
  /\ isPending
  /\ \E p \in LivePosts : p.body = Body(AliceToBob)
  /\ formData = BobToCharlie

\* C27: a change of the search term leaves the expansion set as it is, and
\* a toggle leaves the search term and the filtered block list as they are.
C27_SearchAndExpansionIndependent ==
  [][/\ \A value \in SearchTerms :
          setSearchTerm(value) => expandedBlocks' = expandedBlocks
     /\ (/\ expandedBlocks' # expandedBlocks
         /\ \E i, j \in ListedIndices :
              toggleBlockExpansion(i) \/ toggleBlocksOnOneRender(i, j)) =>
          /\ searchTerm' = searchTerm
          /\ filteredBlocks' = filteredBlocks]_vars

\* A block that is expanded is filtered out by the search term.
C27_Witness ==
  /\ ExplorerMounted
  /\ searchTerm # EmptyStr
  /\ filteredBlocks # <<>>
  /\ \E i \in expandedBlocks : i \notin ListedIndices

\* C28: a query that has data is not loading and has data after every
\* step: once a query has delivered data its loading flag is never true
\* and its data never undefined again, and the stats panel does not go
\* back to its placeholders.
C28_LoadingNeverReturns ==
  [][\A k \in Keys :
       queries[k].data.present =>
         /\ ~isLoading(queries[k])
         /\ queries'[k].data.present
         /\ ~isLoading(queries'[k])
         /\ k = "blockchain-stats" => ~StatsPlaceholders']_vars

\* A query with data is being refetched after a failed poll and an
\* invalidation.
C28_Witness ==
  \E k \in Keys :
    /\ queries[k].data.present
    /\ queries[k].fetchStatus = "fetching"
    /\ queries[k].error
    /\ queries[k].isInvalidated

\* s is a subsequence of t: the elements of s occur in t in the same order.
RECURSIVE C29_IsSubsequence(_, _)
C29_IsSubsequence(s, t) ==
  IF s = <<>> THEN TRUE
  ELSE IF t = <<>> THEN FALSE
  ELSE IF Head(s) = Head(t) THEN C29_IsSubsequence(Tail(s), Tail(t))
  ELSE C29_IsSubsequence(s, Tail(t))

\* Search terms among which some occur in others.
C29_Terms ==
  { EmptyStr, <<"a">>, <<"A", "L">>, TermAlice, <<"o", "b">>, <<"B", "O", "B">>,
    <<"1">>, <<"1", "2">>, <<"c", "1">>, <<"B", "C", "1", "2">> }

\* Every block of the list s is in the list t.
C29_AllIn(s, t) ==
  \A i \in 1..Len(s) : \E j \in 1..Len(t) : t[j] = s[i]

\* C29: the filtered list is a subsequence of the chain of the snapshot;
\* and filtering is monotone in the search term: for a term q that occurs
\* case-insensitively in the search term, every listed block is in the list
\* for q, and for a term q in which the search term occurs, every block of
\* the list for q is listed.
C29_FilterMonotone ==
  blockchainData.present =>
    /\ C29_IsSubsequence(filteredBlocks, blockchainData.chain)
    /\ \A q \in C29_Terms :
         /\ C9_OccursIn(q, searchTerm) =>
              C29_AllIn(filteredBlocks, Filter(blockchainData.chain, q))
         /\ C9_OccursIn(searchTerm, q) =>
              C29_AllIn(Filter(blockchainData.chain, q), filteredBlocks)

\* The explorer lists blocks for "alice" where "a" alone gives more.
C29_Witness ==
  /\ ExplorerMounted
  /\ blockchainData.present
  /\ searchTerm = TermAlice
  /\ Len(filteredBlocks) > 0
  /\ Len(Filter(blockchainData.chain, <<"a">>)) > Len(filteredBlocks)

\* C30: the Recent Activity list holds the last min(5, n) blocks of the
\* chain of n blocks, the newest first, and is empty without a snapshot.
C30_RecentActivityLastFive ==
  LET shown == RecentActivity(blockchainData)
      n == Len(blockchainData.chain)
  IN  IF blockchainData.present
        THEN /\ Len(shown) = (IF n < 5 THEN n ELSE 5)
             /\ \A k \in 1..Len(shown) : shown[k] = blockchainData.chain[n - k + 1]
        ELSE shown = <<>>

\* The overview lists blocks 5, 4, 3, 2, 1 of a chain of six blocks.
C30_Witness ==
  /\ activeTab = "overview"
  /\ blockchainData.present
  /\ Len(blockchainData.chain) = 6
  /\ Len(RecentActivity(blockchainData)) = 5
  /\ RecentActivity(blockchainData)[1].index = 5
  /\ RecentActivity(blockchainData)[5].index = 1

====
